---- MODULE Spec2Model ----
(***************************************************************************)
(* SeismoScope (src/app.py): the cached feed loader load_data and the page *)
(* script main, which filters the loaded rows, renders the views and       *)
(* optionally sleeps and reruns.                                           *)
(*                                                                         *)
(* Values are tagged records so that JSON null, numbers and strings, and   *)
(* pandas' NaN / NaT, are distinct values of one shape.  Magnitudes are    *)
(* counted in tenths (2.5 is 25), times of day in milliseconds.            *)
(***************************************************************************)
EXTENDS Integers, Sequences, FiniteSets, TLC

VARIABLES
    now,              \* wall clock, seconds
    cache,            \* the st.cache_data entry of load_data
    last_fetch,       \* history: when the last request was issued, how it ended
    response,         \* what requests.get received in the current run
    requests,         \* number of network requests issued so far
    runs,             \* number of script runs started
    pc,               \* position of the current run of main
    df,               \* main: df
    criteria,         \* main: start_datetime, end_datetime, min_mag, max_mag
    auto_refresh,     \* main: auto_refresh
    refresh_interval, \* main: refresh_interval (0 models None)
    filtered_df,      \* main: filtered_df
    display_df,       \* main: display_df
    rendered,         \* elements the current run has put on the page
    slept             \* seconds the current run has spent in time.sleep

vars == <<now, cache, last_fetch, response, requests, runs, pc, df, criteria, auto_refresh,
          refresh_interval, filtered_df, display_df, rendered, slept>>

\* ------------------------------------------------------------------ bounds
MaxLen == 3
MaxRuns == 3

\* --------------------------------------------------------------- constants
TTL == 300
MsPerDay == 86400000
SecondsPerMinute == 60

\* ------------------------------------------------------------ JSON values
Null == [tag |-> "null", v |-> 0]
Num(n) == [tag |-> "num", v |-> n]
Str == [tag |-> "str", v |-> 0]

\* pandas values
NaT == [tag |-> "nat", date |-> 0, tod |-> 0]
Timestamp(d, t) == [tag |-> "ts", date |-> d, tod |-> t]

Feature(p, m, t, g, c) ==
    [place |-> p, mag |-> m, time |-> t, geometry |-> g, coordinates |-> c]

\* The features the feed is drawn from: two complete records a day apart, a
\* null depth, a null magnitude, a null time, an unparsable time, a missing
\* geometry, and a geometry of two coordinates.
Features ==
    { Feature("a", Num(25), Num(1000), TRUE, <<Num(10), Num(20), Num(5)>>),
      Feature("b", Num(30), Num(MsPerDay + 2000), TRUE, <<Num(10), Num(20), Null>>),
      Feature("c", Null, Num(MsPerDay + 1000), TRUE, <<Num(10), Num(20), Num(5)>>),
      Feature("d", Num(25), Null, TRUE, <<Num(10), Num(20), Num(5)>>),
      Feature("e", Num(25), Str, TRUE, <<Num(10), Num(20), Num(5)>>),
      Feature("f", Num(25), Num(1000), FALSE, <<>>),
      Feature("g", Num(25), Num(1000), TRUE, <<Num(10), Num(20)>>) }

Payloads == UNION { [1..n -> Features] : n \in 0..MaxLen }

HttpResponse(s, fs) == [kind |-> "http", status |-> s, features |-> fs]

Responses ==
    { [kind |-> "network", status |-> 0, features |-> <<>>],
      [kind |-> "timeout", status |-> 0, features |-> <<>>],
      HttpResponse(500, <<>>) }
    \cup { HttpResponse(200, fs) : fs \in Payloads }

NoResponse == [kind |-> "none", status |-> 0, features |-> <<>>]

\* ------------------------------------------------------------- load_data
\* pandas' missing number
NaN == [tag |-> "nan", v |-> 0]

\* mutant: a JSON null is coerced to zero
CellZero(x) == IF x.tag = "null" THEN Num(0) ELSE x

\* pd.DataFrame stores a JSON null as a missing value and a number as itself
Cell(x) == IF x.tag = "null" THEN NaN ELSE x

\* pd.to_datetime(x, unit="ms"): None gives None (NaT in the frame), a number
\* of milliseconds gives the timestamp of that instant
to_datetime(x) ==
    IF x.tag = "num" THEN Timestamp(x.v \div MsPerDay, x.v % MsPerDay) ELSE NaT

\* requests.get(url, timeout=10) and r.raise_for_status(): the exception raised
FetchError(r) ==
    IF r.kind = "network" THEN "ConnectionError"
    ELSE IF r.kind = "timeout" THEN "Timeout"
    ELSE IF r.status # 200 THEN "HTTPError"
    ELSE ""

\* the exception building one record raises, in the order the dict is evaluated
FeatureError(f) ==
    IF f.time.tag = "str" THEN "ValueError"
    ELSE IF ~f.geometry THEN "KeyError"
    ELSE IF Len(f.coordinates) < 3 THEN "IndexError"
    ELSE ""

\* one record of the list comprehension, as row i of the DataFrame
Record(f, i) ==
    [idx |-> i - 1,
     place |-> f.place,
     mag |-> Cell(f.mag),
     time |-> to_datetime(f.time),
     longitude |-> Cell(f.coordinates[1]),
     latitude |-> Cell(f.coordinates[2]),
     depth |-> Cell(f.coordinates[3])]

Min(S) == CHOOSE x \in S : \A y \in S : x <= y

\* mutant: the handler lets the exception through
LoadFailedRaises(e) == [value |-> <<>>, error |-> e, raised |-> TRUE]

\* the except branch: st.error(...) and an empty DataFrame
LoadFailed(e) == [value |-> <<>>, error |-> e, raised |-> FALSE]

\* the body of load_data on the response r
load_data(r) ==
    IF FetchError(r) # "" THEN LoadFailed(FetchError(r))
    ELSE LET fs == r.features
             bad == { i \in 1..Len(fs) : FeatureError(fs[i]) # "" }
         IN  IF bad # {} THEN LoadFailed(FeatureError(fs[Min(bad)]))
             ELSE [value |-> [i \in 1..Len(fs) |-> Record(fs[i], i)],
                   error |-> "", raised |-> FALSE]

\* mutant: the decorator without a ttl
CacheFreshNoTTL(c, t) == c.valid

\* @st.cache_data(ttl=300): an entry is served while younger than the TTL
CacheFresh(c, t) == c.valid /\ t - c.at < TTL

EmptyCache == [valid |-> FALSE, at |-> 0, value |-> <<>>, error |-> ""]

\* the cache at time t: an entry that has reached the TTL is gone
Expire(c, t) == IF CacheFresh(c, t) THEN c ELSE EmptyCache

\* the elements a call of load_data puts on the page (a cached st.error is
\* replayed on a hit)
LoadElements(e) == IF e # "" THEN {"load_error"} ELSE {}

\* mutant: a result that carries an error is not kept
CacheStoreSuccessOnly(result, t) ==
    IF result.error = ""
    THEN [valid |-> TRUE, at |-> t, value |-> result.value, error |-> ""]
    ELSE EmptyCache

\* the entry st.cache_data keeps for a call that returned result at time t
CacheStore(result, t) ==
    [valid |-> TRUE, at |-> t, value |-> result.value, error |-> result.error]

\* ------------------------------------------------------------------ main
\* comparison of two timestamps
TsLe(a, b) == a.date < b.date \/ (a.date = b.date /\ a.tod <= b.tod)

\* df["time"].min() and .max(): missing values are skipped
Times(d) == { d[i].time : i \in { j \in 1..Len(d) : d[j].time.tag = "ts" } }
min_datetime(d) == CHOOSE t \in Times(d) : \A u \in Times(d) : TsLe(t, u)
max_datetime(d) == CHOOSE t \in Times(d) : \A u \in Times(d) : TsLe(u, t)

\* max_datetime - timedelta(hours=24)
default_start(d) == Timestamp(max_datetime(d).date - 1, max_datetime(d).tod)

\* the date_input of line 49 accepts its default value only inside
\* [min_value, max_value]; a frame without any time has no default at all
DefaultsValid(d) ==
    /\ Times(d) # {}
    /\ min_datetime(d).date <= default_start(d).date
    /\ default_start(d).date <= max_datetime(d).date

\* mutant: the dashboard is rendered whatever was loaded
ShowDashboardAlways(d) == TRUE

\* the branch of line 43
ShowDashboard(d) == d # <<>>

\* values the user can give the widgets
TimesOfDay == {1000, 2000}
MagChoices == {25, 30}
RefreshChoices == {1, 5}
Delays == {1, 301}
DefaultCriteria ==
    [start_datetime |-> NaT, end_datetime |-> NaT, min_mag |-> 0, max_mag |-> 0]

\* the comparisons of the boolean mask; a missing value compares False
MagGe(x, m) == x.tag = "num" /\ x.v >= m
MagLe(x, m) == x.tag = "num" /\ x.v <= m
TimeGe(t, s) == t.tag = "ts" /\ TsLe(s, t)
\* mutant: the end bound is exclusive
TimeLeStrict(t, e) == t.tag = "ts" /\ TsLe(t, e) /\ t # e
TimeLe(t, e) == t.tag = "ts" /\ TsLe(t, e)

Mask(row, c) ==
    /\ MagGe(row.mag, c.min_mag)
    /\ MagLe(row.mag, c.max_mag)
    /\ TimeGe(row.time, c.start_datetime)
    /\ TimeLe(row.time, c.end_datetime)

\* mutant: the rows that pass come out latest first
FilterRowsReversed(d, c) ==
    LET kept == SelectSeq(d, LAMBDA row : Mask(row, c))
    IN  [j \in 1..Len(kept) |-> kept[Len(kept) + 1 - j]]

\* df[mask].copy()
FilterRows(d, c) == SelectSeq(d, LAMBDA row : Mask(row, c))

\* the order sort_values(by="time") puts two rows in; missing times go last
Before(a, b, ascending) ==
    IF a.time.tag # "ts" THEN b.time.tag # "ts"
    ELSE IF b.time.tag # "ts" THEN TRUE
    ELSE IF ascending THEN TsLe(a.time, b.time) ELSE TsLe(b.time, a.time)

Perms(d) ==
    { [i \in 1..Len(d) |-> d[p[i]]] :
        p \in { q \in [1..Len(d) -> 1..Len(d)] :
                  \A i, j \in 1..Len(d) : i # j => q[i] # q[j] } }

\* filtered_df.sort_values(by="time", ascending=...): the default sort is not
\* stable, so rows of equal time may come out in any order
sort_values(d, ascending) ==
    { s \in Perms(d) :
        \A i, j \in 1..Len(d) : i < j => Before(s[i], s[j], ascending) }

\* mutant: the interval is slept in seconds
SleepSecondsBare(interval) == interval

\* time.sleep(refresh_interval * 60)
SleepSeconds(interval) == interval * SecondsPerMinute

Views == {"map", "table", "charts"}

\* ---------------------------------------------------------------- actions
Init ==
    /\ now = 0
    /\ cache = EmptyCache
    /\ last_fetch = [at |-> 0, error |-> ""]
    /\ response = NoResponse
    /\ requests = 0
    /\ runs = 1
    /\ pc = "start"
    /\ df = <<>>
    /\ criteria = DefaultCriteria
    /\ auto_refresh = FALSE
    /\ refresh_interval = 0
    /\ filtered_df = <<>>
    /\ display_df = <<>>
    /\ rendered = {"title"}
    /\ slept = 0

\* a new run of the script begins: st.title, all locals fresh
StartRun ==
    /\ runs' = runs + 1
    /\ pc' = "start"
    /\ response' = NoResponse
    /\ df' = <<>>
    /\ criteria' = DefaultCriteria
    /\ auto_refresh' = FALSE
    /\ refresh_interval' = 0
    /\ filtered_df' = <<>>
    /\ display_df' = <<>>
    /\ rendered' = {"title"}
    /\ slept' = 0

\* df = load_data(), served from the cache
CacheHit ==
    /\ pc = "start"
    /\ CacheFresh(cache, now)
    /\ df' = cache.value
    /\ rendered' = rendered \cup LoadElements(cache.error)
    /\ pc' = "loaded"
    /\ UNCHANGED <<now, cache, last_fetch, response, requests, runs, criteria, auto_refresh,
                   refresh_interval, filtered_df, display_df, slept>>

\* df = load_data(), no live entry: the body runs and issues one request
CacheMiss ==
    /\ pc = "start"
    /\ ~CacheFresh(cache, now)
    /\ \E r \in Responses :
         LET result == load_data(r)
         IN  /\ response' = r
             /\ requests' = requests + 1
             /\ last_fetch' = [at |-> now, error |-> result.error]
             /\ IF result.raised
                THEN /\ cache' = cache
                     /\ df' = df
                     /\ rendered' = rendered \cup {"exception"}
                     /\ pc' = "crashed"
                ELSE /\ cache' = CacheStore(result, now)
                     /\ df' = result.value
                     /\ rendered' = rendered \cup LoadElements(result.error)
                     /\ pc' = "loaded"
    /\ UNCHANGED <<now, runs, criteria, auto_refresh, refresh_interval,
                   filtered_df, display_df, slept>>

\* the else branch of line 257
Advisory ==
    /\ pc = "loaded"
    /\ ~ShowDashboard(df)
    /\ rendered' = rendered \cup {"advisory"}
    /\ pc' = "done"
    /\ UNCHANGED <<now, cache, last_fetch, response, requests, runs, df, criteria,
                   auto_refresh, refresh_interval, filtered_df, display_df, slept>>

\* lines 44-49 on a frame whose default start date is out of range: the
\* sidebar header is out, the date_input raises and the run ends
SidebarCrash ==
    /\ pc = "loaded"
    /\ ShowDashboard(df)
    /\ ~DefaultsValid(df)
    /\ rendered' = rendered \cup {"filters", "exception"}
    /\ pc' = "crashed"
    /\ UNCHANGED <<now, cache, last_fetch, response, requests, runs, df, criteria,
                   auto_refresh, refresh_interval, filtered_df, display_df, slept>>

\* lines 44-71: the sidebar widgets and the filter
Sidebar ==
    /\ pc = "loaded"
    /\ ShowDashboard(df)
    /\ DefaultsValid(df)
    /\ \E start_date \in min_datetime(df).date .. max_datetime(df).date :
       \E end_date \in start_date .. max_datetime(df).date :
       \E start_time \in TimesOfDay, end_time \in TimesOfDay :
       \E min_mag \in MagChoices :
       \E max_mag \in { m \in MagChoices : m >= min_mag } :
         /\ criteria' = [start_datetime |-> Timestamp(start_date, start_time),
                         end_datetime |-> Timestamp(end_date, end_time),
                         min_mag |-> min_mag, max_mag |-> max_mag]
         /\ filtered_df' = FilterRows(df, criteria')
    /\ \/ auto_refresh' = FALSE /\ refresh_interval' = 0
       \/ auto_refresh' = TRUE /\ refresh_interval' \in RefreshChoices
    /\ rendered' = rendered \cup {"filters", "auto_refresh_box"}
    /\ pc' = "filtered"
    /\ UNCHANGED <<now, cache, last_fetch, response, requests, runs, df, display_df, slept>>

\* lines 73-250: the four tabs and the footer
Tabs ==
    /\ pc = "filtered"
    /\ \E sort_option \in {"Latest First", "Oldest First"} :
         display_df' \in sort_values(filtered_df, sort_option = "Oldest First")
    /\ rendered' = rendered \cup Views \cup {"learn", "footer"}
    /\ pc' = "rendered"
    /\ UNCHANGED <<now, cache, last_fetch, response, requests, runs, df, criteria,
                   auto_refresh, refresh_interval, filtered_df, slept>>

\* line 252, box unchecked: the run ends
Finish ==
    /\ pc = "rendered"
    /\ ~auto_refresh
    /\ pc' = "done"
    /\ UNCHANGED <<now, cache, last_fetch, response, requests, runs, df, criteria,
                   auto_refresh, refresh_interval, filtered_df, display_df,
                   rendered, slept>>

\* lines 253-254: the notice, then the blocking sleep
Sleep ==
    /\ pc = "rendered"
    /\ auto_refresh
    /\ rendered' = rendered \cup {"refresh_notice"}
    /\ slept' = SleepSeconds(refresh_interval)
    /\ now' = now + SleepSeconds(refresh_interval)
    /\ cache' = Expire(cache, now')
    /\ pc' = "slept"
    /\ UNCHANGED <<last_fetch, response, requests, runs, df, criteria,
                   auto_refresh, refresh_interval, filtered_df, display_df>>

\* line 255: st.experimental_rerun()
AutoRerun ==
    /\ pc = "slept"
    /\ runs < MaxRuns
    /\ StartRun
    /\ UNCHANGED <<now, cache, last_fetch, requests>>

\* the user reloads or touches a widget some time after a run has ended
UserRerun ==
    /\ pc \in {"done", "crashed"}
    /\ runs < MaxRuns
    /\ \E d \in Delays : now' = now + d
    /\ cache' = Expire(cache, now')
    /\ StartRun
    /\ UNCHANGED <<last_fetch, requests>>

Next ==
    \/ CacheHit
    \/ CacheMiss
    \/ Advisory
    \/ SidebarCrash
    \/ Sidebar
    \/ Tabs
    \/ Finish
    \/ Sleep
    \/ AutoRerun
    \/ UserRerun

Spec == Init /\ [][Next]_vars

\* ----------------------------------------------------------------- claims
\* the instant of a timestamp, in milliseconds since the epoch
Instant(t) == t.date * MsPerDay + t.tod

\* the run has computed filtered_df
Filtered == pc \in {"filtered", "rendered", "slept"} \/ (pc = "done" /\ "map" \in rendered)

\* the run has computed display_df
Displayed == pc \in {"rendered", "slept"} \/ (pc = "done" /\ "map" \in rendered)

\* the row of filtered_df that came from row i of df, if any
Kept(i) == \E j \in 1..Len(filtered_df) : filtered_df[j].idx = df[i].idx

\* C1: a row is in the filter output if and only if its magnitude is present
\* and within [min_mag, max_mag] and its time is present and within
\* [start_datetime, end_datetime], all four bounds inclusive; rows with a
\* missing magnitude or time are never kept, and inverted bounds give an empty
\* result.
C1_FilterIff ==
    Filtered =>
        /\ \A i \in 1..Len(df) :
             Kept(i) <=>
                 /\ df[i].mag.tag = "num"
                 /\ criteria.min_mag <= df[i].mag.v
                 /\ df[i].mag.v <= criteria.max_mag
                 /\ df[i].time.tag = "ts"
                 /\ Instant(criteria.start_datetime) <= Instant(df[i].time)
                 /\ Instant(df[i].time) <= Instant(criteria.end_datetime)
        /\ \A i \in 1..Len(df) :
             (df[i].mag.tag = "nan" \/ df[i].time.tag = "nat") => ~Kept(i)
        /\ (\/ Instant(criteria.start_datetime) > Instant(criteria.end_datetime)
            \/ criteria.min_mag > criteria.max_mag) => filtered_df = <<>>

\* a frame with a missing magnitude and a missing time, filtered to a row
\* that sits exactly on the magnitude and the end-time bound
C1_Witness ==
    /\ Filtered
    /\ \E i \in 1..Len(df) : df[i].mag.tag = "nan"
    /\ \E i \in 1..Len(df) : df[i].time.tag = "nat"
    /\ \E j \in 1..Len(filtered_df) :
         /\ filtered_df[j].mag.v = criteria.max_mag
         /\ filtered_df[j].mag.v = criteria.min_mag
         /\ filtered_df[j].time = criteria.end_datetime

\* C7: the filter output is a subsequence of the input (rows of the input,
\* in the input's order, no more of them), and the sorted table is a
\* permutation of the filter output.
C7_Subsequence ==
    /\ Filtered =>
         /\ Len(filtered_df) <= Len(df)
         /\ \A j \in 1..Len(filtered_df) :
              /\ filtered_df[j].idx + 1 \in 1..Len(df)
              /\ filtered_df[j] = df[filtered_df[j].idx + 1]
         /\ \A j, k \in 1..Len(filtered_df) :
              j < k => filtered_df[j].idx < filtered_df[k].idx
    /\ Displayed =>
         /\ Len(display_df) = Len(filtered_df)
         /\ \A j \in 1..Len(filtered_df) :
              \E k \in 1..Len(display_df) : display_df[k] = filtered_df[j]
         /\ \A j, k \in 1..Len(display_df) :
              j # k => display_df[j].idx # display_df[k].idx

\* the filter dropped a row and kept two, and the table shows them in the
\* other order
C7_Witness ==
    /\ Displayed
    /\ Len(filtered_df) >= 2
    /\ Len(filtered_df) < Len(df)
    /\ display_df # filtered_df

\* the feature has its geometry, its three coordinates and a parsable time
Parsable(f) == f.geometry /\ Len(f.coordinates) >= 3 /\ f.time.tag # "str"

\* the feature is complete: parsable, and its time is a number
WellFormed(f) == Parsable(f) /\ f.time.tag = "num"

\* the current run has called load_data and the call went to the network
Fetched == pc # "start" /\ response.kind # "none"

FetchOk == response.kind = "http" /\ response.status = 200

\* C2: a malformed feature (no geometry, fewer than three coordinates, an
\* unparsable time) is skipped and the remaining features are all loaded.
C2_SkipMalformed ==
    (Fetched /\ FetchOk) =>
        LET good == SelectSeq(response.features, Parsable)
        IN  /\ Len(df) = Len(good)
            /\ \A i \in 1..Len(good) : df[i].place = good[i].place

\* C3: a failed fetch (network failure, timeout, non-200 status) gives an
\* empty frame and the error message, and no exception leaves load_data.
C3_FetchFailure ==
    (Fetched /\ ~FetchOk) =>
        /\ df = <<>>
        /\ "load_error" \in rendered
        /\ "exception" \notin rendered
        /\ pc # "crashed"

\* a run that received a 500 and went on to its end
C3_Witness ==
    /\ response.kind = "http"
    /\ response.status = 500
    /\ pc = "done"
    /\ df = <<>>
    /\ "load_error" \in rendered

\* C4: a call of load_data less than TTL seconds after the request that filled
\* the cache returns the cached frame and issues no request; a call at or
\* after the TTL (and the very first call) issues exactly one.
C4_CacheTTL ==
    [][ (pc = "start" /\ pc' # "start") =>
          IF requests > 0 /\ now - last_fetch.at < TTL
          THEN requests' = requests /\ df' = cache.value /\ cache' = cache
          ELSE requests' = requests + 1 /\ last_fetch'.at = now ]_vars

\* three calls, at 0, 301 and 302 seconds: two requests
C4_Witness ==
    /\ runs = 3
    /\ pc = "loaded"
    /\ now = 302
    /\ last_fetch.at = 301
    /\ requests = 2

\* C5: every row load_data returns has a time.
C5_TimePresent == \A i \in 1..Len(df) : df[i].time.tag = "ts"

\* C6: a fetch whose features are all complete gives one row per feature, in
\* feed order, with the feature's place, instant, magnitude and depth, a null
\* magnitude or depth staying missing.
C6_OneRowPerFeature ==
    (Fetched /\ FetchOk /\ \A i \in 1..Len(response.features) :
                             WellFormed(response.features[i])) =>
        /\ Len(df) = Len(response.features)
        /\ "load_error" \notin rendered
        /\ \A i \in 1..Len(df) :
             LET f == response.features[i]
             IN  /\ df[i].place = f.place
                 /\ df[i].idx = i - 1
                 /\ df[i].time.tag = "ts"
                 /\ Instant(df[i].time) = f.time.v
                 /\ (f.mag.tag = "null") <=> (df[i].mag.tag = "nan")
                 /\ f.mag.tag = "num" => df[i].mag = f.mag
                 /\ (f.coordinates[3].tag = "null") <=> (df[i].depth.tag = "nan")
                 /\ f.coordinates[3].tag = "num" => df[i].depth = f.coordinates[3]

\* three complete features, one without magnitude, one without depth
C6_Witness ==
    /\ Fetched
    /\ FetchOk
    /\ Len(response.features) = 3
    /\ \A i \in 1..3 : WellFormed(response.features[i])
    /\ \E i \in 1..3 : response.features[i].mag.tag = "null"
    /\ \E i \in 1..3 : response.features[i].coordinates[3].tag = "null"
    /\ response.features[1].place # response.features[2].place
    /\ Len(df) = 3

\* the last request ended in an exception, so load_data returned no rows
LoadError == requests > 0 /\ last_fetch.error # ""

\* C8: a run whose load failed shows the error and the advisory and none of
\* the filters, map, table or charts; the views appear only in a run whose
\* frame came from a request that succeeded.
C8_AdvisoryOnly ==
    /\ (pc # "start" /\ LoadError) =>
         /\ rendered \subseteq {"title", "load_error", "advisory"}
         /\ pc = "done" => "advisory" \in rendered
    /\ (rendered \cap Views # {}) =>
         /\ requests > 0
         /\ last_fetch.error = ""
         /\ df # <<>>

\* a run that met a timeout and has ended
C8_Witness ==
    /\ pc = "done"
    /\ response.kind = "timeout"
    /\ rendered = {"title", "load_error", "advisory"}

FetchErrors == {"ConnectionError", "Timeout", "HTTPError"}

\* C9: after a request that failed, a call of load_data less than TTL seconds
\* later issues no request and returns the empty frame and the error again.
C9_FailureMemoized ==
    [][ (/\ pc = "start"
         /\ pc' # "start"
         /\ requests > 0
         /\ last_fetch.error \in FetchErrors
         /\ now - last_fetch.at < TTL) =>
          /\ requests' = requests
          /\ df' = <<>>
          /\ "load_error" \in rendered'
          /\ pc' = "loaded" ]_vars

\* a second run, one second after a 500, that made no request
C9_Witness ==
    /\ runs = 2
    /\ now = 1
    /\ pc = "done"
    /\ requests = 1
    /\ last_fetch.error = "HTTPError"
    /\ "advisory" \in rendered

\* the run has rendered every view with a non-empty frame and the box checked
RefreshArmed ==
    /\ df # <<>>
    /\ auto_refresh
    /\ "auto_refresh_box" \in rendered
    /\ Views \subseteq rendered

\* C10: the script sleeps, and then reruns by itself, only in a run that
\* loaded rows, has the box checked and has rendered its views, and only
\* after the whole interval; the advisory state has no box, never sleeps and
\* is left only by a rerun of the user.
C10_AutoRerun ==
    /\ [][ /\ pc' = "slept" =>
                /\ RefreshArmed
                /\ now' - now = refresh_interval * 60
                /\ refresh_interval >= 1
           /\ (pc = "slept" /\ pc' = "start") =>
                /\ RefreshArmed
                /\ slept = refresh_interval * 60
           /\ runs' # runs => (pc = "slept" \/ UserRerun)
           /\ "advisory" \in rendered => UserRerun ]_vars
    /\ []("advisory" \in rendered =>
            /\ "auto_refresh_box" \notin rendered
            /\ ~auto_refresh
            /\ pc = "done")

\* a second run started by the script itself after a one-minute sleep
C10_Witness ==
    /\ runs = 2
    /\ pc = "start"
    /\ now = 60
    /\ requests = 1

====
